---------------------------- MODULE Spec2Model ----------------------------
(***************************************************************************)
(* BLE to USB HID bridge (src/src/main.c): the connection lifecycle, the   *)
(* GATT discovery callback, the report relay and the button classifier,    *)
(* as three threads (main, system workqueue, Bluetooth callback thread)    *)
(* plus the button interrupt, running against a Bluetooth host stack, a    *)
(* USB HID endpoint and a settings store.                                  *)
(*                                                                         *)
(* The stack's answers (whether a scan or a connection attempt can be      *)
(* started, whether a pending connection completes, when a link drops,     *)
(* which attributes a peer exposes) are inputs: every action that calls    *)
(* the stack draws the answer from the outcomes the call can have.         *)
(***************************************************************************)
EXTENDS Integers, Sequences, FiniteSets, TLC

(***************************************************************************)
(* Bounds of the model.                                                    *)
(***************************************************************************)
MaxPresses == 3      \* button interrupts taken
MaxCreates == 2      \* connection attempts the stack accepts
MaxNotifs == 1       \* data notifications delivered
MaxUsbEvents == 1    \* USB status changes
MaxTime == 2503      \* last value of the uptime clock, in ms
MaxRefs == 2         \* references the application may hold on one connection

(***************************************************************************)
(* Program constants.                                                      *)
(***************************************************************************)
DoublePressMs == 500      \* main.c:540
BootSleepMs == 1000       \* K_SECONDS(1), main.c:636
ReportLen == 8            \* main.c:77
FirstHandle == 1          \* BT_ATT_FIRST_ATTRIBUTE_HANDLE, main.c:323
LastHandle == 65535       \* BT_ATT_LAST_ATTRIBUTE_HANDLE, main.c:324 (0xffff, main.c:215)

(***************************************************************************)
(* Peers, addresses, threads.                                              *)
(***************************************************************************)
Peers == {1, 2}           \* peripherals in range whose name passes the filter
ZeroAddr == 0             \* keyboard_addr after memset(&keyboard_addr, 0, ...)
Addrs == Peers \cup {ZeroAddr}
NULL == 0                 \* current_conn == NULL / no connection object
Absent == 0 - 1           \* the store holds no "ble_bridge/addr" record
BadSize == 0 - 2          \* the store holds a record of the wrong size
StoreValues == Addrs \cup {Absent, BadSize}

Threads == {"main", "work", "bt"}
NoThread == "none"

\* time between two readings of the uptime clock by the button interrupt
PressGaps == {DoublePressMs - 1, DoublePressMs, DoublePressMs + 1}

(***************************************************************************)
(* Report payloads a peer may notify: one of each length around the       *)
(* report length, every byte non-zero and no two bytes of it equal.        *)
(***************************************************************************)
PayloadLens == {ReportLen - 1, ReportLen, ReportLen + 1}
PayloadSeeds == {3}
MkPayload(n, b) == [i \in 1..n |-> (b * i) % 256]
Payloads == {MkPayload(n, b) : n \in PayloadLens, b \in PayloadSeeds}
ZeroReport == [i \in 1..ReportLen |-> 0]

(***************************************************************************)
(* Attribute tables a connected peer may expose: the handles of its HID    *)
(* primary services and its HID report characteristics (declaration        *)
(* handle, value handle).                                                  *)
(***************************************************************************)
GattTables ==
    << [services |-> {15}, chars |-> {<<8, 9>>, <<18, 19>>, <<22, 23>>}],
       [services |-> {},   chars |-> {}],
       [services |-> {15}, chars |-> {}] >>
TableIds == DOMAIN GattTables
NoTable == NULL                \* no table: nothing is being discovered

VARIABLES
    pc,                  \* position of each thread
    cont,                \* where each thread resumes after start_scan/attempt_reconnect
    already_connected,   \* the local of start_scan/attempt_reconnect, per thread
    should_reconnect,    \* the local of button_work_handler
    cb_conn,             \* the conn argument of the running connection callback
    conn_mutex,          \* holder of conn_mutex
    current_conn,
    appRefs,             \* references taken with bt_conn_ref and not yet released
    keyboard_addr,
    keyboard_paired,
    store,               \* settings record "ble_bridge/addr"
    hid_report,
    usb_configured,
    sinkLast,            \* the buffer of the last hid_int_ep_write call
    sinkWrites,          \* number of hid_int_ep_write calls
    scanning,            \* the stack is scanning
    link,                \* the stack's connection object per address
    discover_params,
    disc,                \* the stack's running discovery: connection, next handle and
                         \* the attribute table of the peer
    service_found,
    service_handle,
    subscribe_params,
    sub,                 \* connection the stack holds the subscription on
    nSubscribe,          \* number of bt_gatt_subscribe calls
    button_press_time,
    button_double_press,
    workPending,         \* button_work is queued on the system workqueue
    now,                 \* k_uptime_get()
    btHandler,           \* callback the Bluetooth thread is running
    directIssued,        \* the running callback has called bt_conn_le_create for the stored address
    arEntry,             \* per thread: the stored identity, if attempt_reconnect was entered
                         \* with a valid Pairing Record and no live handle; else NoEntry
    nPress, nCreate, nNotify, nUsb,
    notifyIn             \* payload of the last notification

vars == << pc, cont, already_connected, should_reconnect, cb_conn, conn_mutex,
           current_conn, appRefs, keyboard_addr, keyboard_paired, store,
           hid_report, usb_configured, sinkLast, sinkWrites, scanning, link,
           discover_params, disc, service_found, service_handle,
           subscribe_params, sub, nSubscribe, button_press_time,
           button_double_press, workPending, now, btHandler, directIssued,
           arEntry, nPress, nCreate, nNotify, nUsb, notifyIn >>

NoEntry == 0 - 1

Home(t) == IF t = "main" THEN "m_loop" ELSE "idle"
InitialStores == {Absent, BadSize, 1}

DiscoverZero == [uuid |-> "NULL", type |-> "PRIMARY", start_handle |-> 0, end_handle |-> 0]
SubscribeZero == [value_handle |-> 0, ccc_handle |-> 0, end_handle |-> 0, value |-> 0]
NoDisc == [conn |-> NULL, pos |-> 0, table |-> NoTable]

Init ==
    /\ pc = [t \in Threads |-> IF t = "main" THEN "m_boot" ELSE "idle"]
    /\ cont = [t \in Threads |-> Home(t)]
    /\ already_connected = [t \in Threads |-> FALSE]
    /\ should_reconnect = FALSE
    /\ cb_conn = NULL
    /\ conn_mutex = NoThread
    /\ current_conn = NULL
    /\ appRefs = [a \in Addrs |-> 0]
    /\ keyboard_addr = ZeroAddr
    /\ keyboard_paired = FALSE
    /\ store \in InitialStores
    /\ hid_report = ZeroReport
    /\ usb_configured = FALSE
    /\ sinkLast = ZeroReport
    /\ sinkWrites = 0
    /\ scanning = FALSE
    /\ link = [a \in Addrs |-> "none"]
    /\ discover_params = DiscoverZero
    /\ disc = NoDisc
    /\ service_found = FALSE
    /\ service_handle = 0
    /\ subscribe_params = SubscribeZero
    /\ sub = NULL
    /\ nSubscribe = 0
    /\ button_press_time = 0
    /\ button_double_press = FALSE
    /\ workPending = FALSE
    /\ now = 0
    /\ btHandler = "none"
    /\ directIssued = FALSE
    /\ arEntry = [t \in Threads |-> NoEntry]
    /\ nPress = 0
    /\ nCreate = 0
    /\ nNotify = 0
    /\ nUsb = 0
    /\ notifyIn = << >>

\* groups of variables, for UNCHANGED
locals == << already_connected, should_reconnect >>
connVars == << conn_mutex, current_conn, appRefs >>
pairVars == << keyboard_addr, keyboard_paired, store >>
relayVars == << hid_report, usb_configured, sinkLast, sinkWrites, nNotify, nUsb, notifyIn >>
gattVars == << discover_params, disc, service_found, service_handle,
               subscribe_params, sub, nSubscribe >>
buttonVars == << button_press_time, button_double_press, workPending, now, nPress >>

(***************************************************************************)
(* Control transfer.  A thread's position is the statement it runs next.   *)
(* Every critical section on conn_mutex is one step that takes the mutex   *)
(* and touches current_conn; the thread's next step releases the mutex     *)
(* before anything else.  Steps that touch only what the thread owns are   *)
(* joined to the step before them.                                         *)
(***************************************************************************)
Goto(t, l) == pc' = [pc EXCEPT ![t] = l]

\* a critical section entered without taking conn_mutex
LockSkipped(t) ==
    /\ conn_mutex' = conn_mutex

\* k_mutex_lock(&conn_mutex, K_FOREVER) by thread t
Lock(t) ==
    /\ conn_mutex = NoThread
    /\ conn_mutex' = t

\* k_mutex_unlock(&conn_mutex) by thread t
Unlock(t) ==
    /\ conn_mutex = t
    /\ conn_mutex' = NoThread

\* call start_scan() on thread t, resuming at k
CallStartScan(t, k) ==
    /\ pc' = [pc EXCEPT ![t] = "ss_cs"]
    /\ cont' = [cont EXCEPT ![t] = k]
    /\ UNCHANGED arEntry

\* call attempt_reconnect() on thread t, resuming at k
CallAttemptReconnect(t, k) ==
    /\ pc' = [pc EXCEPT ![t] = "ar_cs"]
    /\ cont' = [cont EXCEPT ![t] = k]
    /\ arEntry' = [arEntry EXCEPT ![t] =
                      IF keyboard_paired /\ current_conn = NULL
                      THEN keyboard_addr ELSE NoEntry]

\* return from start_scan()/attempt_reconnect(), or from a callback
Return(t) ==
    /\ pc' = [pc EXCEPT ![t] = cont[t]]
    /\ cont' = [cont EXCEPT ![t] = Home(t)]
    /\ arEntry' = [arEntry EXCEPT ![t] = NoEntry]
    /\ already_connected' = [already_connected EXCEPT ![t] = FALSE]
    /\ btHandler' = IF t = "bt" /\ cont[t] = "idle" THEN "none" ELSE btHandler
    /\ cb_conn' = IF t = "bt" /\ cont[t] = "idle" THEN NULL ELSE cb_conn
    /\ directIssued' = IF t = "bt" /\ cont[t] = "idle" THEN FALSE ELSE directIssued

(***************************************************************************)
(* The stack's answers.                                                    *)
(***************************************************************************)
\* bt_le_scan_start: refused with -EALREADY while a scan runs
ScanStartResults == IF scanning THEN {"already"} ELSE {"ok", "fail"}
ScanStopResults == {"ok", "fail"}
\* bt_conn_le_create(a): refused while a connection object for a exists or
\* another connection is being initiated
CreateResults(a) ==
    IF link[a] # "none" \/ (\E q \in Addrs : link[q] = "init") \/ nCreate >= MaxCreates
    THEN {"fail"} ELSE {"ok", "fail"}
\* requests on a connection are refused unless it is connected
RequestResults(c) == IF c # NULL /\ link[c] = "up" THEN {"ok", "fail"} ELSE {"fail"}

(***************************************************************************)
(* start_scan(), main.c:429-456, on thread t.                              *)
(***************************************************************************)
\* main.c:433-434
SsCheck(t) ==
    /\ pc[t] = "ss_cs"
    /\ Lock(t)
    /\ already_connected' = [already_connected EXCEPT ![t] = (current_conn # NULL)]
    /\ Goto(t, "ss_start")
    /\ UNCHANGED << cont, should_reconnect, cb_conn, current_conn, appRefs, pairVars,
                    relayVars, scanning, link, gattVars, buttonVars, btHandler,
                    directIssued, arEntry, nCreate >>

\* main.c:435-455
SsStart(t) ==
    /\ pc[t] = "ss_start"
    /\ Unlock(t)
    /\ IF already_connected[t]
       THEN UNCHANGED scanning
       ELSE \E r \in ScanStartResults : scanning' = (scanning \/ r = "ok")
    /\ Return(t)
    /\ UNCHANGED << should_reconnect, current_conn, appRefs, pairVars, relayVars, link,
                    gattVars, buttonVars, nCreate >>

(***************************************************************************)
(* attempt_reconnect(), main.c:458-489, on thread t.                       *)
(***************************************************************************)
\* main.c:460-461
ArCheck(t) ==
    /\ pc[t] = "ar_cs"
    /\ Lock(t)
    /\ already_connected' = [already_connected EXCEPT ![t] = (current_conn # NULL)]
    /\ Goto(t, "ar_go")
    /\ UNCHANGED << cont, should_reconnect, cb_conn, current_conn, appRefs, pairVars,
                    relayVars, scanning, link, gattVars, buttonVars, btHandler,
                    directIssued, arEntry, nCreate >>

\* main.c:462-473: the early return and the test of keyboard_paired
ArGo(t) ==
    /\ pc[t] = "ar_go"
    /\ Unlock(t)
    /\ IF already_connected[t]
       THEN /\ Return(t)
       ELSE /\ Goto(t, IF keyboard_paired THEN "ar_create" ELSE "ss_cs")
            /\ UNCHANGED << cont, already_connected, cb_conn, btHandler, directIssued,
                            arEntry >>
    /\ UNCHANGED << should_reconnect, current_conn, appRefs, pairVars, relayVars,
                    scanning, link, gattVars, buttonVars, nCreate >>

\* main.c:480-488: bt_conn_le_create(&keyboard_addr, ...) and the fallback
ArCreate(t) ==
    /\ pc[t] = "ar_create"
    /\ \E r \in CreateResults(keyboard_addr) :
          IF r = "ok"
          THEN /\ link' = [link EXCEPT ![keyboard_addr] = "init"]
               /\ nCreate' = nCreate + 1
               /\ Return(t)
          ELSE /\ Goto(t, "ss_cs")
               /\ directIssued' = (directIssued \/ t = "bt")
               /\ UNCHANGED << link, nCreate, cont, already_connected, cb_conn,
                               btHandler, arEntry >>
    /\ UNCHANGED << should_reconnect, connVars, pairVars, relayVars, scanning,
                    gattVars, buttonVars >>

(***************************************************************************)
(* main(), main.c:628-659: settings_load, the first connection attempt and *)
(* the housekeeping loop.                                                  *)
(***************************************************************************)
\* settings_load() -> settings_set(), main.c:263-275, then the sleep
MBoot ==
    /\ pc["main"] = "m_boot"
    /\ IF store \in Addrs
       THEN /\ keyboard_addr' = store
            /\ keyboard_paired' = TRUE
       ELSE UNCHANGED << keyboard_addr, keyboard_paired >>
    /\ Goto("main", "m_sleep")
    /\ UNCHANGED << cont, locals, cb_conn, connVars, store, relayVars, scanning, link,
                    gattVars, buttonVars, btHandler, directIssued, arEntry, nCreate >>

\* main.c:636-643 with the stored record ignored: always start_scan()
MGoAlwaysScans ==
    /\ pc["main"] = "m_sleep"
    /\ now' = IF now < BootSleepMs THEN BootSleepMs ELSE now
    /\ CallStartScan("main", "m_loop")
    /\ UNCHANGED << locals, cb_conn, connVars, pairVars, relayVars, scanning, link,
                    gattVars, button_press_time, button_double_press, workPending,
                    nPress, btHandler, directIssued, nCreate >>

\* main.c:636-643: the sleep has ended, so the clock shows a second or more
MGo ==
    /\ pc["main"] = "m_sleep"
    /\ now' = IF now < BootSleepMs THEN BootSleepMs ELSE now
    /\ IF keyboard_paired
       THEN CallAttemptReconnect("main", "m_loop")
       ELSE CallStartScan("main", "m_loop")
    /\ UNCHANGED << locals, cb_conn, connVars, pairVars, relayVars, scanning, link,
                    gattVars, button_press_time, button_double_press, workPending,
                    nPress, btHandler, directIssued, nCreate >>

\* main.c:650-651, after the sleep of main.c:647
MLoopCheck ==
    /\ pc["main"] = "m_loop"
    /\ Lock("main")
    /\ already_connected' = [already_connected EXCEPT !["main"] = (current_conn # NULL)]
    /\ Goto("main", "m_l_unlock")
    /\ UNCHANGED << cont, should_reconnect, cb_conn, current_conn, appRefs, pairVars,
                    relayVars, scanning, link, gattVars, buttonVars, btHandler,
                    directIssued, arEntry, nCreate >>

\* main.c:652-658
MLoopDone ==
    /\ pc["main"] = "m_l_unlock"
    /\ Unlock("main")
    /\ already_connected' = [already_connected EXCEPT !["main"] = FALSE]
    /\ Goto("main", "m_loop")
    /\ UNCHANGED << cont, should_reconnect, cb_conn, current_conn, appRefs, pairVars,
                    relayVars, scanning, link, gattVars, buttonVars, btHandler,
                    directIssued, arEntry, nCreate >>

(***************************************************************************)
(* The button: the interrupt handler button_pressed, main.c:534-550, and   *)
(* button_work_handler on the system workqueue, main.c:493-531.            *)
(***************************************************************************)
\* main.c:540: (now - button_press_time) < 500; the clock never runs
\* backwards, so the uint64_t difference does not wrap
IsDoublePress(t, last) == (t - last) < DoublePressMs

\* the clock is read by the interrupt, so it advances here: the press comes
\* d ms after the previous reading of the clock
button_pressed ==
    /\ nPress < MaxPresses
    /\ \E d \in PressGaps :
          /\ now + d <= MaxTime
          /\ now' = now + d
    /\ button_double_press' = IsDoublePress(now', button_press_time)
    /\ button_press_time' = now'
    /\ workPending' = TRUE
    /\ nPress' = nPress + 1
    /\ UNCHANGED << pc, cont, locals, cb_conn, connVars, pairVars, relayVars, scanning,
                    link, gattVars, btHandler, directIssued, arEntry, nCreate >>

\* the workqueue takes the queued work item and calls the handler
WorkDequeue ==
    /\ pc["work"] = "idle"
    /\ workPending
    /\ workPending' = FALSE
    /\ Goto("work", "w_entry")
    /\ UNCHANGED << cont, locals, cb_conn, connVars, pairVars, relayVars, scanning,
                    link, gattVars, button_press_time, button_double_press, now,
                    nPress, btHandler, directIssued, arEntry, nCreate >>

\* main.c:495: if (button_double_press)
WorkEntry ==
    /\ pc["work"] = "w_entry"
    /\ Goto("work", IF button_double_press THEN "w_d_cs" ELSE "w_s_cs")
    /\ UNCHANGED << cont, locals, cb_conn, connVars, pairVars, relayVars, scanning,
                    link, gattVars, buttonVars, btHandler, directIssued, arEntry,
                    nCreate >>

\* main.c:499-504: bt_conn_disconnect, bt_conn_unref, current_conn = NULL
WorkUnpairRelease ==
    /\ pc["work"] = "w_d_cs"
    /\ Lock("work")
    /\ IF current_conn # NULL
       THEN /\ link' = [link EXCEPT ![current_conn] =
                           IF @ = "up" THEN "term" ELSE @]
            /\ appRefs' = [appRefs EXCEPT ![current_conn] = @ - 1]
            /\ current_conn' = NULL
       ELSE UNCHANGED << link, appRefs, current_conn >>
    /\ Goto("work", "w_d_clear")
    /\ UNCHANGED << cont, locals, cb_conn, pairVars, relayVars, scanning,
                    gattVars, buttonVars, btHandler, directIssued, arEntry, nCreate >>

\* main.c:505-509
WorkUnpairClear ==
    /\ pc["work"] = "w_d_clear"
    /\ Unlock("work")
    /\ keyboard_paired' = FALSE
    /\ keyboard_addr' = ZeroAddr
    /\ Goto("work", "w_d_save")
    /\ UNCHANGED << cont, locals, cb_conn, current_conn, appRefs, store, relayVars,
                    scanning, link, gattVars, buttonVars, btHandler, directIssued,
                    arEntry, nCreate >>

\* main.c:512: settings_save_one("ble_bridge/addr", NULL, 0), then the sleep
WorkUnpairSave ==
    /\ pc["work"] = "w_d_save"
    /\ store' = Absent
    /\ Goto("work", "w_d_sleep")
    /\ UNCHANGED << cont, locals, cb_conn, connVars, keyboard_addr, keyboard_paired,
                    relayVars, scanning, link, gattVars, buttonVars, btHandler,
                    directIssued, arEntry, nCreate >>

\* main.c:515-516: after the sleep, start_scan()
WorkUnpairScan ==
    /\ pc["work"] = "w_d_sleep"
    /\ CallStartScan("work", "w_d_reset")
    /\ UNCHANGED << locals, cb_conn, connVars, pairVars, relayVars, scanning, link,
                    gattVars, buttonVars, btHandler, directIssued, nCreate >>

\* main.c:518
WorkUnpairReset ==
    /\ pc["work"] = "w_d_reset"
    /\ button_double_press' = FALSE
    /\ Goto("work", "idle")
    /\ UNCHANGED << cont, locals, cb_conn, connVars, pairVars, relayVars, scanning,
                    link, gattVars, button_press_time, workPending, now, nPress,
                    btHandler, directIssued, arEntry, nCreate >>

\* main.c:523-524 with the record left out of the decision
WorkSingleReadAnyRecord ==
    /\ pc["work"] = "w_s_cs"
    /\ Lock("work")
    /\ should_reconnect' = (current_conn = NULL)
    /\ Goto("work", "w_s_go")
    /\ UNCHANGED << cont, already_connected, cb_conn, current_conn, appRefs, pairVars,
                    relayVars, scanning, link, gattVars, buttonVars, btHandler,
                    directIssued, arEntry, nCreate >>

\* main.c:523-524
WorkSingleRead ==
    /\ pc["work"] = "w_s_cs"
    /\ Lock("work")
    /\ should_reconnect' = (current_conn = NULL /\ keyboard_paired)
    /\ Goto("work", "w_s_go")
    /\ UNCHANGED << cont, already_connected, cb_conn, current_conn, appRefs, pairVars,
                    relayVars, scanning, link, gattVars, buttonVars, btHandler,
                    directIssued, arEntry, nCreate >>

\* main.c:525-529
WorkSingleGo ==
    /\ pc["work"] = "w_s_go"
    /\ Unlock("work")
    /\ should_reconnect' = FALSE
    /\ IF should_reconnect
       THEN CallAttemptReconnect("work", "idle")
       ELSE /\ Goto("work", "idle")
            /\ UNCHANGED << cont, arEntry >>
    /\ UNCHANGED << already_connected, cb_conn, current_conn, appRefs, pairVars,
                    relayVars, scanning, link, gattVars, buttonVars, btHandler,
                    directIssued, nCreate >>

(***************************************************************************)
(* USB status callback, main.c:103-123.                                    *)
(***************************************************************************)
\* status codes the USB stack reports; the last stands for every code the
\* switch of main.c:105 leaves to its default
UsbStatuses == {"USB_DC_CONFIGURED", "USB_DC_DISCONNECTED", "USB_DC_SUSPEND"}

usb_hid_status_cb ==
    /\ nUsb < MaxUsbEvents
    /\ nUsb' = nUsb + 1
    /\ \E status \in UsbStatuses :
          usb_configured' = CASE status = "USB_DC_CONFIGURED" -> TRUE
                              [] status = "USB_DC_DISCONNECTED" -> FALSE
                              [] OTHER -> usb_configured
    /\ UNCHANGED << pc, cont, locals, cb_conn, connVars, pairVars, hid_report, sinkLast,
                    sinkWrites, nNotify, notifyIn, scanning, link, gattVars, buttonVars,
                    btHandler, directIssued, arEntry, nCreate >>

(***************************************************************************)
(* The link layer: a connection drops (supervision timeout, the peer       *)
(* leaving, or the completion of a requested disconnect).                  *)
(***************************************************************************)
LinkDown ==
    /\ \E p \in Peers :
          /\ link[p] \in {"up", "term"}
          /\ link' = [link EXCEPT ![p] = "lost"]
    /\ UNCHANGED << pc, cont, locals, cb_conn, connVars, pairVars, relayVars, scanning,
                    gattVars, buttonVars, btHandler, directIssued, arEntry, nCreate >>

\* the Bluetooth thread is free to run the next callback
BtIdle == pc["bt"] = "idle"

\* enter callback h with argument c at label l
BtEnter(h, c, l) ==
    /\ btHandler' = h
    /\ cb_conn' = c
    /\ Goto("bt", l)

(***************************************************************************)
(* connected(conn, err), main.c:283-332.                                   *)
(***************************************************************************)
\* the pending connection to p is established: connected(conn, 0) runs
\* main.c:311-312, current_conn = bt_conn_ref(conn)
BtConnected ==
    /\ BtIdle
    /\ Lock("bt")
    /\ \E p \in Peers :
          /\ link[p] = "init"
          /\ appRefs[p] < MaxRefs
          /\ link' = [link EXCEPT ![p] = "up"]
          /\ current_conn' = p
          /\ appRefs' = [appRefs EXCEPT ![p] = @ + 1]
          /\ BtEnter("connected", p, "c_mem")
    /\ UNCHANGED << cont, locals, pairVars, relayVars, scanning, gattVars, buttonVars,
                    directIssued, arEntry, nCreate >>

\* main.c:313-317
ConnRemember ==
    /\ pc["bt"] = "c_mem"
    /\ Unlock("bt")
    /\ keyboard_addr' = cb_conn
    /\ keyboard_paired' = TRUE
    /\ Goto("bt", "c_save")
    /\ UNCHANGED << cont, locals, cb_conn, current_conn, appRefs, store, relayVars,
                    scanning, link, gattVars, buttonVars, btHandler, directIssued,
                    arEntry, nCreate >>

\* main.c:318: settings_save_one("ble_bridge/addr", &keyboard_addr, ...)
ConnSave ==
    /\ pc["bt"] = "c_save"
    /\ store' = keyboard_addr
    /\ Goto("bt", "c_disc")
    /\ UNCHANGED << cont, locals, cb_conn, connVars, keyboard_addr, keyboard_paired,
                    relayVars, scanning, link, gattVars, buttonVars, btHandler,
                    directIssued, arEntry, nCreate >>

\* main.c:321-331: discovery of the HID service over the whole handle range
ConnDiscover ==
    /\ pc["bt"] = "c_disc"
    /\ discover_params' = [uuid |-> "hids", type |-> "PRIMARY",
                           start_handle |-> FirstHandle, end_handle |-> LastHandle]
    /\ \E r \in RequestResults(cb_conn), g \in TableIds :
          disc' = IF r = "ok"
                  THEN [conn |-> cb_conn, pos |-> FirstHandle, table |-> g]
                  ELSE disc
    /\ Return("bt")
    /\ UNCHANGED << should_reconnect, connVars, pairVars, relayVars, scanning, link,
                    service_found, service_handle, subscribe_params, sub,
                    nSubscribe, buttonVars, nCreate >>

\* the pending connection to a fails: connected(conn, err), err # 0, runs
\* main.c:292-296
BtConnectFailed ==
    /\ BtIdle
    /\ Lock("bt")
    /\ \E a \in Addrs :
          /\ link[a] = "init"
          /\ link' = [link EXCEPT ![a] = "none"]
          /\ BtEnter("connected_err", a, "c_e_unlock")
    /\ IF current_conn # NULL
       THEN /\ appRefs' = [appRefs EXCEPT ![current_conn] = @ - 1]
            /\ current_conn' = NULL
       ELSE UNCHANGED << appRefs, current_conn >>
    /\ UNCHANGED << cont, locals, pairVars, relayVars, scanning, gattVars,
                    buttonVars, directIssued, arEntry, nCreate >>

\* main.c:297, then the sleep of main.c:300
ConnErrUnlock ==
    /\ pc["bt"] = "c_e_unlock"
    /\ Unlock("bt")
    /\ Goto("bt", "c_e_sleep")
    /\ UNCHANGED << cont, locals, cb_conn, current_conn, appRefs, pairVars, relayVars,
                    scanning, link, gattVars, buttonVars, btHandler, directIssued,
                    arEntry, nCreate >>

\* main.c:301-306
ConnErrRetry ==
    /\ pc["bt"] = "c_e_sleep"
    /\ IF keyboard_paired
       THEN CallAttemptReconnect("bt", "idle")
       ELSE CallStartScan("bt", "idle")
    /\ UNCHANGED << locals, cb_conn, connVars, pairVars, relayVars, scanning, link,
                    gattVars, buttonVars, btHandler, directIssued, nCreate >>

(***************************************************************************)
(* disconnected(conn, reason), main.c:334-362.  The stack first ends the   *)
(* discovery and the subscription it holds on the lost connection (their   *)
(* callbacks run with no attribute / no data), then reports the            *)
(* disconnection.                                                          *)
(***************************************************************************)
\* disconnected(conn, reason) runs main.c:341-345
BtDisconnected ==
    /\ BtIdle
    /\ Lock("bt")
    /\ \E p \in Peers :
          /\ link[p] = "lost"
          /\ disc.conn # p
          /\ sub # p
          /\ link' = [link EXCEPT ![p] = "none"]
          /\ BtEnter("disconnected", p, "d_clear")
    /\ IF current_conn # NULL
       THEN /\ appRefs' = [appRefs EXCEPT ![current_conn] = @ - 1]
            /\ current_conn' = NULL
       ELSE UNCHANGED << appRefs, current_conn >>
    /\ UNCHANGED << cont, locals, pairVars, relayVars, scanning, gattVars, buttonVars,
                    directIssued, arEntry, nCreate >>

\* a disconnect handler that pushes the report without zeroing it
DiscClearKeepsReport ==
    /\ pc["bt"] = "d_clear"
    /\ Unlock("bt")
    /\ IF usb_configured
       THEN /\ sinkLast' = hid_report
            /\ sinkWrites' = sinkWrites + 1
       ELSE UNCHANGED << sinkLast, sinkWrites >>
    /\ Goto("bt", "d_sleep")
    /\ UNCHANGED << cont, locals, cb_conn, current_conn, appRefs, pairVars, hid_report,
                    usb_configured, nNotify, nUsb, notifyIn, scanning, link, gattVars,
                    buttonVars, btHandler, directIssued, arEntry, nCreate >>

\* main.c:346-352: zero the report and push it, then the sleep of main.c:355
DiscClear ==
    /\ pc["bt"] = "d_clear"
    /\ Unlock("bt")
    /\ hid_report' = ZeroReport
    /\ IF usb_configured
       THEN /\ sinkLast' = hid_report'
            /\ sinkWrites' = sinkWrites + 1
       ELSE UNCHANGED << sinkLast, sinkWrites >>
    /\ Goto("bt", "d_sleep")
    /\ UNCHANGED << cont, locals, cb_conn, current_conn, appRefs, pairVars,
                    usb_configured, nNotify, nUsb, notifyIn, scanning, link, gattVars,
                    buttonVars, btHandler, directIssued, arEntry, nCreate >>

\* main.c:356-361
DiscRetry ==
    /\ pc["bt"] = "d_sleep"
    /\ IF keyboard_paired
       THEN CallAttemptReconnect("bt", "idle")
       ELSE CallStartScan("bt", "idle")
    /\ UNCHANGED << locals, cb_conn, connVars, pairVars, relayVars, scanning, link,
                    gattVars, buttonVars, btHandler, directIssued, nCreate >>

(***************************************************************************)
(* scan_cb -> device_found, main.c:370-427, for an advertisement whose     *)
(* name passes the filter of main.c:384-386.                               *)
(***************************************************************************)
\* main.c:391-398: bt_le_scan_stop, then the sleep
BtDeviceFound ==
    /\ BtIdle
    /\ scanning
    /\ \E p \in Peers :
          /\ link[p] = "none"
          /\ \E r \in ScanStopResults :
                IF r = "ok"
                THEN /\ scanning' = FALSE
                     /\ BtEnter("device_found", p, "df_sleep")
                ELSE UNCHANGED << scanning, btHandler, cb_conn, pc >>
    /\ UNCHANGED << cont, locals, connVars, pairVars, relayVars, link, gattVars,
                    buttonVars, directIssued, arEntry, nCreate >>

\* main.c:404-413: bt_conn_le_create(addr, ...)
FoundCreate ==
    /\ pc["bt"] = "df_sleep"
    /\ \E r \in CreateResults(cb_conn) :
          IF r = "ok"
          THEN /\ link' = [link EXCEPT ![cb_conn] = "init"]
               /\ nCreate' = nCreate + 1
               /\ Return("bt")
          ELSE /\ Goto("bt", "df_backoff")
               /\ UNCHANGED << link, nCreate, cont, already_connected, cb_conn,
                               btHandler, directIssued, arEntry >>
    /\ UNCHANGED << should_reconnect, connVars, pairVars, relayVars, scanning,
                    gattVars, buttonVars >>

\* main.c:408-409: after the backoff, start_scan()
FoundRetry ==
    /\ pc["bt"] = "df_backoff"
    /\ CallStartScan("bt", "idle")
    /\ UNCHANGED << locals, cb_conn, connVars, pairVars, relayVars, scanning, link,
                    gattVars, buttonVars, btHandler, directIssued, nCreate >>

(***************************************************************************)
(* GATT discovery: the stack walks the attributes of the connection that   *)
(* match discover_params and calls discover_func for each, then once with  *)
(* no attribute.                                                           *)
(***************************************************************************)
NoAttr == [handle |-> 0, value_handle |-> 0]

\* attributes of table g the running discovery reports
Matching(g) ==
    IF g = NoTable THEN {}
    ELSE IF discover_params.type = "PRIMARY" /\ discover_params.uuid = "hids"
    THEN {[handle |-> h, value_handle |-> 0] : h \in GattTables[g].services}
    ELSE IF discover_params.type = "CHARACTERISTIC" /\ discover_params.uuid = "report"
    THEN {[handle |-> ch[1], value_handle |-> ch[2]] : ch \in GattTables[g].chars}
    ELSE {}

\* the next attribute the stack reports on connection c, NoAttr at the end
\* of the range or when the connection is lost
NextAttr(c) ==
    LET cand == {a \in Matching(disc.table) :
                    /\ a.handle >= disc.pos
                    /\ a.handle <= discover_params.end_handle}
    IN  IF link[c] = "lost" \/ cand = {} THEN NoAttr
        ELSE CHOOSE a \in cand : \A b \in cand : a.handle <= b.handle

\* subscribe_to_reports(conn, value_handle), main.c:165-192: the parameters
\* after the first bt_gatt_subscribe (r1) and, if that fails, the second (r2)
\* a subscription on the declaration handle instead of the value handle
SubscribeOnDeclaration(vh) ==
    [value_handle |-> vh - 1, ccc_handle |-> vh + 1, end_handle |-> 0, value |-> 1]

SubscribeFirst(vh) ==
    [value_handle |-> vh, ccc_handle |-> vh + 1, end_handle |-> 0, value |-> 1]

SubscribeFallback(vh) ==
    [value_handle |-> vh, ccc_handle |-> 0, end_handle |-> vh + 5, value |-> 1]

subscribe_to_reports(c, vh) ==
    \E r1, r2 \in RequestResults(c) :
        IF r1 = "ok"
        THEN /\ subscribe_params' = SubscribeFirst(vh)
             /\ sub' = c
             /\ nSubscribe' = nSubscribe + 1
        ELSE /\ subscribe_params' = SubscribeFallback(vh)
             /\ sub' = IF r2 = "ok" THEN c ELSE sub
             /\ nSubscribe' = nSubscribe + 2

\* discover_func(conn, attr, params), main.c:195-256
discover_func(c, attr) ==
    IF attr = NoAttr
    THEN IF discover_params.type = "PRIMARY" /\ service_found
         THEN \* main.c:205-221: start the characteristic phase
              /\ service_found' = FALSE
              /\ discover_params' = [uuid |-> "report", type |-> "CHARACTERISTIC",
                                     start_handle |-> service_handle,
                                     end_handle |-> LastHandle]
              /\ \E r \in RequestResults(c) :
                    disc' = IF r = "ok" THEN [disc EXCEPT !.pos = service_handle]
                            ELSE NoDisc
              /\ UNCHANGED << service_handle, subscribe_params, sub, nSubscribe >>
         ELSE \* main.c:224-226
              /\ discover_params' = DiscoverZero
              /\ disc' = NoDisc
              /\ UNCHANGED << service_found, service_handle, subscribe_params, sub,
                              nSubscribe >>
    ELSE IF discover_params.type = "PRIMARY" /\ discover_params.uuid = "hids"
         THEN \* main.c:231-237
              /\ service_found' = TRUE
              /\ service_handle' = attr.handle
              /\ disc' = [disc EXCEPT !.pos = attr.handle + 1]
              /\ UNCHANGED << discover_params, subscribe_params, sub, nSubscribe >>
    ELSE IF discover_params.type = "CHARACTERISTIC" /\ discover_params.uuid = "report"
         THEN \* main.c:238-252
              /\ discover_params' = DiscoverZero
              /\ subscribe_to_reports(c, attr.value_handle)
              /\ disc' = NoDisc
              /\ UNCHANGED << service_found, service_handle >>
    ELSE \* main.c:255
         /\ disc' = [disc EXCEPT !.pos = attr.handle + 1]
         /\ UNCHANGED << discover_params, service_found, service_handle,
                         subscribe_params, sub, nSubscribe >>

\* the stack delivers the next discovery result
BtDiscover ==
    /\ BtIdle
    /\ disc.conn # NULL
    /\ link[disc.conn] \in {"up", "term", "lost"}
    /\ discover_func(disc.conn, NextAttr(disc.conn))
    /\ UNCHANGED << pc, cont, locals, cb_conn, connVars, pairVars, relayVars, scanning,
                    link, buttonVars, btHandler, directIssued, arEntry, nCreate >>

(***************************************************************************)
(* Report relay: notify_func, main.c:133-162.                              *)
(***************************************************************************)
\* main.c:143
AcceptsPayload(data) == Len(data) >= ReportLen
\* a copy that loses the second byte of the report
ReportCopyDropsByte(data) ==
    [i \in 1..ReportLen |-> IF i = 2 THEN 0 ELSE data[i]]

\* main.c:145: memcpy(hid_report, data, 8)
ReportCopy(data) == SubSeq(data, 1, ReportLen)

\* a notification with payload data
notify_func(data) ==
    /\ IF AcceptsPayload(data)
       THEN /\ hid_report' = ReportCopy(data)
            /\ IF usb_configured
               THEN /\ sinkLast' = hid_report'
                    /\ sinkWrites' = sinkWrites + 1
               ELSE UNCHANGED << sinkLast, sinkWrites >>
       ELSE UNCHANGED << hid_report, sinkLast, sinkWrites >>
    /\ UNCHANGED << subscribe_params, sub >>

\* the peer notifies the subscribed characteristic
BtNotify ==
    /\ BtIdle
    /\ sub # NULL
    /\ link[sub] \in {"up", "term"}
    /\ nNotify < MaxNotifs
    /\ \E d \in Payloads :
          /\ notifyIn' = d
          /\ notify_func(d)
    /\ nNotify' = nNotify + 1
    /\ UNCHANGED << pc, cont, locals, cb_conn, connVars, pairVars, usb_configured, nUsb,
                    scanning, link, discover_params, disc, service_found,
                    service_handle, nSubscribe, buttonVars, btHandler, directIssued,
                    arEntry, nCreate >>

\* a payload-less notification that leaves the stored value handle alone
BtUnsubscribedKeepsHandle ==
    /\ BtIdle
    /\ sub # NULL
    /\ link[sub] \in {"up", "term", "lost"}
    /\ sub' = NULL
    /\ UNCHANGED << pc, cont, locals, cb_conn, connVars, pairVars, relayVars, scanning,
                    link, discover_params, disc, service_found, service_handle,
                    subscribe_params, nSubscribe, buttonVars, btHandler, directIssued,
                    arEntry, nCreate >>

\* the stack ends the subscription (the peer refused it, or the connection
\* is lost): notify_func with data == NULL, main.c:137-141
BtUnsubscribed ==
    /\ BtIdle
    /\ sub # NULL
    /\ link[sub] \in {"up", "term", "lost"}
    /\ subscribe_params' = [subscribe_params EXCEPT !.value_handle = 0]
    /\ sub' = NULL
    /\ UNCHANGED << pc, cont, locals, cb_conn, connVars, pairVars, relayVars, scanning,
                    link, discover_params, disc, service_found, service_handle,
                    nSubscribe, buttonVars, btHandler, directIssued, arEntry, nCreate >>

(***************************************************************************)
(* The system.  The threads and the interrupt are grouped by what they     *)
(* run; the specifications below compose the groups.                       *)
(***************************************************************************)
\* start_scan() and attempt_reconnect() on whichever thread called them
Connector ==
    \/ \E t \in Threads : SsCheck(t)
    \/ \E t \in Threads : SsStart(t)
    \/ \E t \in Threads : ArCheck(t)
    \/ \E t \in Threads : ArGo(t)
    \/ \E t \in Threads : ArCreate(t)

\* main() up to its loop
Boot == MBoot \/ MGo

\* the housekeeping loop of main()
Housekeeping == MLoopCheck \/ MLoopDone

\* the work item of the button, on the system workqueue
Worker ==
    \/ WorkDequeue \/ WorkEntry
    \/ WorkUnpairRelease \/ WorkUnpairClear \/ WorkUnpairSave \/ WorkUnpairScan
    \/ WorkUnpairReset
    \/ WorkSingleRead \/ WorkSingleGo

\* the first press of the button since boot
FirstPress == nPress = 0 /\ button_pressed

\* connection events on the Bluetooth thread
Lifecycle ==
    \/ LinkDown
    \/ BtConnected \/ ConnRemember \/ ConnSave \/ ConnDiscover
    \/ BtConnectFailed \/ ConnErrUnlock \/ ConnErrRetry
    \/ BtDisconnected \/ DiscClear \/ DiscRetry
    \/ BtDeviceFound \/ FoundCreate \/ FoundRetry
    \/ BtDiscover \/ BtUnsubscribed

\* the report path
Relay == usb_hid_status_cb \/ BtNotify

Next ==
    Connector \/ Boot \/ Housekeeping \/ button_pressed \/ Worker \/ Lifecycle \/ Relay

Spec == Init /\ [][Next]_vars

\* the bridge while nobody touches the button
NextBridge == Connector \/ Boot \/ Lifecycle \/ Relay
SpecBridge == Init /\ [][NextBridge]_vars

\* the button and its work item while no peer is in range
NextButton == Connector \/ Boot \/ button_pressed \/ Worker
SpecButton == Init /\ [][NextButton]_vars

\* the bridge with one press of the button
NextOnePress == Connector \/ Boot \/ FirstPress \/ Worker \/ Lifecycle \/ Relay
SpecOnePress == Init /\ [][NextOnePress]_vars

\* every context that touches current_conn: the housekeeping loop, the work
\* item after one press, and the connection events
NextLock == Connector \/ Boot \/ Housekeeping \/ FirstPress \/ Worker \/ Lifecycle
SpecLock == Init /\ [][NextLock]_vars

(***************************************************************************)
(* Properties.                                                             *)
(***************************************************************************)
\* connections on which the application holds a reference
LiveHandles == {a \in Addrs : appRefs[a] > 0}

\* C1: in every reachable state at most one connection handle is live: the
\* application never holds references on two connections at once.
C1_SingleLiveHandle == Cardinality(LiveHandles) <= 1

\* C2: when the disconnected handler returns and no work of the button is
\* queued or running, scanning is active or the handler has issued a direct
\* connect attempt.
C2_DisconnectRearms ==
    [][(/\ btHandler = "disconnected"
        /\ btHandler' = "none"
        /\ pc["work"] = "idle"
        /\ ~workPending)
          => (scanning' \/ directIssued \/ pc["bt"] = "ar_create")]_vars

\* the bridge is disconnected, not scanning, has no connect attempt in
\* flight and nothing left to run
Halted ==
    /\ current_conn = NULL
    /\ ~scanning
    /\ \A a \in Addrs : link[a] = "none"
    /\ pc["main"] = "m_loop"
    /\ pc["bt"] = "idle"
    /\ pc["work"] = "idle"
    /\ ~workPending

\* C3: no reachable state has the bridge disconnected, not scanning, with
\* no connect attempt in flight and no retry pending.
C3_NoHalt == ~Halted

\* the first bytes of the last notified payload
NotifiedReport == SubSeq(notifyIn, 1, ReportLen)

\* C4: a notification of at least 8 bytes leaves its first 8 bytes in the
\* report buffer and, when the sink is ready, writes exactly them to the
\* sink once; a shorter one changes neither the buffer nor the sink.
C4_ReportIntegrity ==
    [][nNotify' # nNotify =>
          IF Len(notifyIn') >= 8
          THEN /\ hid_report' = SubSeq(notifyIn', 1, 8)
               /\ IF usb_configured
                  THEN sinkLast' = SubSeq(notifyIn', 1, 8) /\ sinkWrites' = sinkWrites + 1
                  ELSE sinkLast' = sinkLast /\ sinkWrites' = sinkWrites
          ELSE /\ hid_report' = hid_report
               /\ sinkLast' = sinkLast
               /\ sinkWrites' = sinkWrites]_vars

\* C4 witness: a 9-byte notification has been relayed to the ready sink
C4_Witness ==
    /\ nNotify > 0
    /\ Len(notifyIn) = 9
    /\ sinkWrites > 0
    /\ sinkLast = NotifiedReport
    /\ hid_report = NotifiedReport

\* C5: a notification that arrives while current_conn is NULL causes no
\* sink write.
C5_NoRelayWithoutHandle ==
    [][(nNotify' # nNotify /\ current_conn = NULL) => sinkWrites' = sinkWrites]_vars

\* eight zero bytes
AllZero == [i \in 1..8 |-> 0]

\* C6: from the disconnected event until its handler returns, every sink
\* write carries 8 zero bytes, the handler writes once if the sink is
\* ready, and after that write the report buffer is all-zero.
C6_DisconnectClears ==
    [][/\ (btHandler' = "disconnected" /\ sinkWrites' # sinkWrites)
             => sinkLast' = AllZero
       /\ (btHandler' = "disconnected" /\ pc'["bt"] # "d_clear")
             => hid_report' = AllZero
       /\ (pc["bt"] = "d_clear" /\ pc'["bt"] # "d_clear" /\ usb_configured)
             => sinkWrites' = sinkWrites + 1]_vars

\* C6 witness: a non-zero report was relayed, then the disconnect handler
\* wrote the zero report
C6_Witness ==
    /\ pc["bt"] = "d_sleep"
    /\ sinkWrites = 2
    /\ Len(notifyIn) >= 8
    /\ NotifiedReport # AllZero
    /\ sinkLast = AllZero
    /\ hid_report = AllZero

\* C7: a press is classified as a double press exactly when there is a
\* preceding press and it comes less than 500 ms after it.
C7_DoublePressThreshold ==
    [][nPress' = nPress + 1 =>
          (button_double_press' <=> (nPress >= 1 /\ now' - button_press_time < 500))]_vars

\* C8: attempt_reconnect() called with a valid pairing record holding A
\* and no live handle issues its direct connect to A.
C8_ReconnectUsesStoredIdentity ==
    [][\A t \in Threads :
          (pc[t] = "ar_create" /\ pc'[t] # "ar_create" /\ arEntry[t] # NoEntry)
             => keyboard_addr = arEntry[t]]_vars

\* value handle of the first report characteristic of table g declared at
\* handle h or above, 0 if there is none
FirstReportFrom(g, h) ==
    LET c == {ch \in GattTables[g].chars : ch[1] >= h}
    IN  IF c = {} THEN 0
        ELSE (CHOOSE x \in c : \A y \in c : x[1] <= y[1])[2]

\* the service phase has reported every HID service of the peer's table
ServicesExhausted ==
    \A h \in GattTables[disc.table].services : h < disc.pos

\* C9: the characteristic phase starts only after the service phase ran to
\* exhaustion (or lost its connection) with an HID service remembered, and
\* searches from the remembered handle to 0xFFFF; a subscription is made
\* only in the characteristic phase, on the value handle of the first
\* report characteristic in that range, and ends the discovery.
C9_TwoPhaseDiscovery ==
    [][/\ (discover_params.type = "PRIMARY" /\ discover_params'.type = "CHARACTERISTIC")
             => /\ disc.conn # NULL
                /\ ServicesExhausted \/ link[disc.conn] = "lost"
                /\ service_found
                /\ discover_params'.start_handle = service_handle
                /\ discover_params'.end_handle = 65535
       /\ (service_handle' # service_handle)
             => /\ discover_params.type = "PRIMARY"
                /\ service_handle' \in GattTables[disc.table].services
       /\ (nSubscribe' # nSubscribe \/ sub' \notin {sub, NULL})
             => /\ discover_params.type = "CHARACTERISTIC"
                /\ discover_params.start_handle = service_handle
                /\ subscribe_params'.value_handle =
                      FirstReportFrom(disc.table, service_handle)
                /\ disc'.conn = NULL]_vars

\* C9 witness: service at 15, report characteristic at 18 with value handle
\* 19: the relay is subscribed on 19
C9_Witness ==
    /\ sub # NULL
    /\ service_handle = 15
    /\ subscribe_params.value_handle = 19
    /\ nSubscribe >= 1
    /\ disc.conn = NULL

\* C10: a disconnected or connected-with-error event for a connection
\* other than the live handle leaves current_conn and its reference alone.
C10_StaleCompletionDiscarded ==
    [][(/\ btHandler = "none"
        /\ btHandler' \in {"disconnected", "connected_err"}
        /\ current_conn # NULL
        /\ cb_conn' # current_conn)
          => (current_conn' = current_conn /\ appRefs' = appRefs)]_vars

\* the statement a thread is at is a sleep (or a wait for its next event)
Sleeping(t) ==
    pc[t] \in {"idle", "m_sleep", "m_loop", "w_d_sleep", "c_e_sleep", "d_sleep",
               "df_sleep", "df_backoff"}

\* C11: current_conn is written, and its value is copied to a local, only
\* by a step of a thread that holds conn_mutex; no thread holds the mutex
\* while it sleeps or after its handler has returned; the button interrupt
\* neither takes the mutex nor moves any thread.
C11_MutexDiscipline ==
    /\ [](\A t \in Threads : Sleeping(t) => conn_mutex # t)
    /\ [][/\ (current_conn' # current_conn \/ appRefs' # appRefs)
                => conn_mutex' \in Threads
          /\ \A t \in Threads :
                (already_connected'[t] /\ ~already_connected[t]) => conn_mutex' = t
          /\ (should_reconnect' /\ ~should_reconnect) => conn_mutex' = "work"
          /\ (nPress' # nPress) => (conn_mutex' = conn_mutex /\ pc' = pc)]_vars

\* C11 witness: the work item holds the mutex after releasing a live handle
\* while the housekeeping loop sleeps
C11_Witness ==
    /\ conn_mutex = "work"
    /\ pc["work"] = "w_d_clear"
    /\ current_conn = NULL
    /\ \E a \in Peers : link[a] = "term"
    /\ pc["main"] = "m_loop"

\* the step in which the work item's unpair branch returns from start_scan
\* (main.c:516), its last call
UnpairHandled ==
    /\ pc["work"] = "ss_start"
    /\ cont["work"] = "w_d_reset"
    /\ pc'["work"] = "w_d_reset"

\* C12: when the unpair branch has done its last call, no handle is live,
\* the pairing record is invalid in memory and absent from the store, and
\* the scan is running.
C12_UnpairOutcome ==
    [][UnpairHandled =>
          /\ current_conn' = NULL
          /\ ~keyboard_paired'
          /\ keyboard_addr' = ZeroAddr
          /\ store' = Absent
          /\ scanning']_vars

\* C13: the store is loaded once, before any connection activity; the first
\* action after the boot delay is a scan when the store gave no record of
\* the right size and a direct connect to the stored identity when it did;
\* device_found issues its connect with the scan stopped; discovery of a
\* connection starts after its peer was saved, its subscription is made
\* during its discovery, and a report reaches the sink only under a
\* subscription.
C13_BootSequence ==
    /\ [](pc["main"] \in {"m_boot", "m_sleep"}
             => (~scanning /\ \A a \in Addrs : link[a] = "none"))
    /\ [][/\ pc["main"] # "m_boot" => pc'["main"] # "m_boot"
          /\ (keyboard_paired' # keyboard_paired \/ keyboard_addr' # keyboard_addr)
                => (pc["main"] = "m_boot" \/ pc["bt"] = "c_mem"
                       \/ pc["work"] = "w_d_clear")
          /\ (pc["main"] = "m_sleep" /\ pc'["main"] # "m_sleep")
                => IF store \in Peers
                   THEN pc'["main"] = "ar_cs" /\ arEntry'["main"] = store
                   ELSE pc'["main"] = "ss_cs"
          /\ \A a \in Addrs :
                (link[a] = "none" /\ link'[a] = "init")
                   => /\ pc["main"] = "ar_create" => a = store
                      /\ pc["bt"] = "df_sleep" => ~scanning
          /\ (disc.conn = NULL /\ disc'.conn # NULL /\ btHandler = "connected")
                => (store = disc'.conn /\ current_conn = disc'.conn)
          /\ (sub = NULL /\ sub' # NULL) => disc.conn = sub'
          /\ (sinkWrites' # sinkWrites /\ nNotify' # nNotify)
                => (sub # NULL /\ store = sub)]_vars

\* C13 witness: after a boot that went through scanning, the keyboard found
\* by the scan is connected, saved and subscribed, and its report is at the sink
C13_Witness ==
    /\ nCreate = 1
    /\ store = 2
    /\ sub = 2
    /\ sinkWrites >= 1
    /\ sinkLast = MkPayload(ReportLen, 3)

\* C14: once disconnected() has released the handle and zeroed the report
\* (it is at its backoff sleep), no subscription is active for the lost
\* connection and subscribe_params holds no value handle.
C14_DisconnectTearsDown ==
    (btHandler = "disconnected" /\ pc["bt"] = "d_sleep")
        => (sub # cb_conn /\ subscribe_params.value_handle = 0)

\* C15: the step that starts the characteristic phase runs for a connection
\* whose own attribute table holds the HID service at the handle the phase
\* starts from.
C15_CharacteristicPhaseOwnService ==
    [][(discover_params.type = "PRIMARY" /\ discover_params'.type = "CHARACTERISTIC")
          => /\ disc.conn # NULL
             /\ service_handle \in GattTables[disc.table].services
             /\ discover_params'.start_handle = service_handle]_vars

\* the single-press branch leaves its decision: it calls attempt_reconnect()
\* if it decided to reconnect, and otherwise returns with nothing changed
SinglePressActs ==
    (pc["work"] = "w_s_go" /\ pc'["work"] # "w_s_go")
       => IF should_reconnect
          THEN pc'["work"] = "ar_cs"
          ELSE /\ pc'["work"] = "idle"
               /\ UNCHANGED << current_conn, appRefs, pairVars, scanning, link >>

\* C16 as stated: the single-press branch decides to reconnect exactly when
\* it reads no live handle.
C16_SinglePressDispatch ==
    [][/\ (pc["work"] = "w_s_cs" /\ pc'["work"] = "w_s_go")
             => (should_reconnect' <=> current_conn = NULL)
       /\ SinglePressActs]_vars

\* C16 amended: the single-press branch decides to reconnect exactly when it
\* reads no live handle and a valid pairing record.
C16_SinglePressNeedsRecord ==
    [][/\ (pc["work"] = "w_s_cs" /\ pc'["work"] = "w_s_go")
             => (should_reconnect' <=> (current_conn = NULL /\ keyboard_paired))
       /\ SinglePressActs]_vars

\* C16 witness: a single press found the link down and a record present and
\* has called attempt_reconnect()
C16_Witness ==
    /\ pc["work"] = "ar_cs"
    /\ cont["work"] = "idle"
    /\ current_conn = NULL
    /\ keyboard_paired
    /\ ~button_double_press

\* C17: a press less than 500 ms after the previous one is classified as a
\* double press; the work item that finds the flag set takes the unpair
\* branch; and no double press from the second of a run onward loses its
\* dispatch: it is not captured while an earlier double press still waits for
\* the work item, and the work item does not clear the flag while a captured
\* press waits for it.
C17_EveryDoublePressUnpairs ==
    [][/\ (nPress' = nPress + 1 /\ nPress >= 1
              /\ now' - button_press_time < DoublePressMs)
             => button_double_press'
       /\ (pc["work"] = "w_entry" /\ pc'["work"] # "w_entry" /\ button_double_press)
             => pc'["work"] = "w_d_cs"
       /\ (nPress' = nPress + 1 /\ nPress >= 2 /\ button_double_press
              /\ button_double_press')
             => ~workPending
       /\ (nPress' = nPress /\ nPress >= 2 /\ button_double_press
              /\ ~button_double_press')
             => ~workPending]_vars

\* C18: the payload-less notification leaves value_handle 0 and ends the
\* subscription, and it comes after the connection's discovery is over;
\* value_handle stays 0 until a subscribe call, a subscribe call is made only
\* inside a discovery, a discovery starts only in connected(), and a report
\* reaches the sink only under a subscription: so within the connection
\* nothing is subscribed again and nothing more is forwarded.
C18_UnsubscribeIsFinal ==
    [][/\ (sub # NULL /\ sub' = NULL)
             => (subscribe_params'.value_handle = 0 /\ disc.conn = NULL)
       /\ (subscribe_params.value_handle = 0
              /\ subscribe_params'.value_handle # 0)
             => nSubscribe' # nSubscribe
       /\ (nSubscribe' # nSubscribe \/ (sub = NULL /\ sub' # NULL))
             => (disc.conn # NULL /\ link[disc.conn] # "none")
       /\ (disc.conn = NULL /\ disc'.conn # NULL)
             => (btHandler = "connected" /\ pc["bt"] = "c_disc")
       /\ (sinkWrites' # sinkWrites /\ nNotify' # nNotify) => sub # NULL]_vars

\* C18 witness: a connection that was subscribed and then unsubscribed is
\* still up, with the value handle cleared, while the peer has a report left
\* to send
C18_Witness ==
    /\ current_conn # NULL
    /\ link[current_conn] = "up"
    /\ sub = NULL
    /\ subscribe_params.value_handle = 0
    /\ subscribe_params.value = 1
    /\ nNotify < MaxNotifs
    /\ usb_configured
    /\ pc["bt"] = "idle"

\* the step in which connected(), taken with err == 0, returns
ConnectedReturns ==
    pc["bt"] = "c_disc" /\ pc'["bt"] # "c_disc"

\* C19: when connected() returns after a successful connect, current_conn is
\* the connection, the pairing record is valid and holds the peer's address,
\* the store holds the same address, and discovery of primary services over
\* handles 1..0xffff has been requested; the store is written only by the
\* save step of connected() and by the save step of the unpair branch, which
\* empties it.
C19_ConnectedOutcome ==
    [][/\ ConnectedReturns
             => /\ current_conn' = cb_conn
                /\ keyboard_paired'
                /\ keyboard_addr' = cb_conn
                /\ store' = cb_conn
                /\ discover_params' = [uuid |-> "hids", type |-> "PRIMARY",
                                       start_handle |-> FirstHandle,
                                       end_handle |-> LastHandle]
       /\ store' # store
             => \/ pc["bt"] = "c_save" /\ pc'["bt"] = "c_disc"
                \/ pc["work"] = "w_d_save" /\ pc'["work"] = "w_d_sleep"
                      /\ store' = Absent]_vars

\* no handler of the work item or of the Bluetooth thread is running, and
\* main() has loaded the store
Quiescent ==
    /\ pc["work"] = "idle"
    /\ pc["bt"] = "idle"
    /\ pc["main"] # "m_boot"

\* C20: whenever no handler is running, either the pairing record is valid
\* and the store holds its address, or the record is invalid and the store
\* holds no usable record.
C20_RecordMatchesStore ==
    Quiescent =>
       IF keyboard_paired
       THEN store = keyboard_addr
       ELSE store \in {Absent, BadSize}

\* C21: no scan is running while current_conn holds a connection.
C21_NoScanWhileConnected ==
    ~(scanning /\ current_conn # NULL)

=============================================================================
